---------------------------- MODULE Spec2Model ----------------------------
(***************************************************************************)
(* Model of the Whatnot slot matcher, whatnot-matcher/app/matcher.py:      *)
(* parse_sku_to_slot, should_exclude_row, should_include_row, detect_mode  *)
(* and match().                                                            *)
(*                                                                         *)
(* Strings are sequences of one-character strings.  A cell of the table is *)
(* a record [kind, s, n]: a string (kind "str", text s), Python None       *)
(* (kind "none"), a missing value NaN (kind "nan"), an integer (kind       *)
(* "int", value n) or a float with an integral value (kind "float",        *)
(* value n, printed "n.0").  An Optional[int] is <<>> (None) or <<n>>.     *)
(***************************************************************************)
EXTENDS Integers, Sequences, FiniteSets, TLC

\* ------------------------------------------------------------------ bounds
\* Rows of a table in the general specification.
MaxRows == 3
\* Rows of a table in the sequence-mode specification.
MaxSeqRows == 3
\* Rows of a table in the mode-detection specification (5 rows reach 80%).
MaxAutoRows == 5
\* Length of an identifier string in the parser specification.
MaxSkuLen == 3

\* ------------------------------------------------------------- characters
UpperChars == <<"A","B","C","D","E","F","G","H","I","J","K","L","M",
                "N","O","P","Q","R","S","T","U","V","W","X","Y","Z">>
LowerChars == <<"a","b","c","d","e","f","g","h","i","j","k","l","m",
                "n","o","p","q","r","s","t","u","v","w","x","y","z">>
DigitChars == <<"0","1","2","3","4","5","6","7","8","9">>
SpaceChars == {" ", "\t", "\n"}

IsDigit(c) == \E i \in 1..10 : DigitChars[i] = c
DigitVal(c) == (CHOOSE i \in 1..10 : DigitChars[i] = c) - 1

\* str.lower() on one character
LowerChar(c) ==
    IF \E i \in 1..26 : UpperChars[i] = c
    THEN LowerChars[CHOOSE i \in 1..26 : UpperChars[i] = c]
    ELSE c

\* str.lower()
StrLower(s) == [i \in 1..Len(s) |-> LowerChar(s[i])]

\* str.strip(): leading and trailing whitespace removed
RECURSIVE LStrip(_)
LStrip(s) == IF s # <<>> /\ Head(s) \in SpaceChars THEN LStrip(Tail(s)) ELSE s

RECURSIVE RStrip(_)
RStrip(s) ==
    IF s # <<>> /\ s[Len(s)] \in SpaceChars
    THEN RStrip(SubSeq(s, 1, Len(s) - 1))
    ELSE s

StrStrip(s) == RStrip(LStrip(s))

\* Python's `sub in s` on strings
StrContains(sub, s) ==
    \E i \in 0..(Len(s) - Len(sub)) : SubSeq(s, i + 1, i + Len(sub)) = sub

\* ------------------------------------------------------------------ cells
StrV(s) == [kind |-> "str", s |-> s, n |-> 0]
NoneV == [kind |-> "none", s |-> <<>>, n |-> 0]
NaNV == [kind |-> "nan", s |-> <<>>, n |-> 0]
IntV(n) == [kind |-> "int", s |-> <<>>, n |-> n]
FloatV(n) == [kind |-> "float", s |-> <<>>, n |-> n]

None == <<>>
Some(n) == <<n>>

\* decimal digits of a natural number, as str() prints them
RECURSIVE NatStr(_)
NatStr(n) ==
    IF n < 10 THEN <<DigitChars[n + 1]>>
    ELSE NatStr(n \div 10) \o <<DigitChars[(n % 10) + 1]>>

IntStr(n) == IF n < 0 THEN <<"-">> \o NatStr(-n) ELSE NatStr(n)

\* Python's str(value)
PyStr(v) ==
    CASE v.kind = "str" -> v.s
      [] v.kind = "none" -> <<"N","o","n","e">>
      [] v.kind = "nan" -> <<"n","a","n">>
      [] v.kind = "int" -> IntStr(v.n)
      [] v.kind = "float" -> IntStr(v.n) \o <<".","0">>

\* Python's truth value of `not value`
PyNot(v) ==
    \/ v.kind = "none"
    \/ v.kind = "str" /\ v.s = <<>>
    \/ v.kind \in {"int", "float"} /\ v.n = 0

\* pandas.isna(value) on a scalar
IsNa(v) == v.kind \in {"none", "nan"}

\* ----------------------------------------------------- parse_sku_to_slot
\* int() of a string of decimal digits
RECURSIVE DigitsToInt(_)
DigitsToInt(ds) ==
    IF ds = <<>> THEN 0
    ELSE 10 * DigitsToInt(SubSeq(ds, 1, Len(ds) - 1)) + DigitVal(ds[Len(ds)])

\* re.search(r'\d+', s).group(): the leftmost maximal run of digits of s,
\* <<>> when s holds no digit
FirstDigitRun(s) ==
    IF \A i \in 1..Len(s) : ~IsDigit(s[i]) THEN <<>>
    ELSE LET first == CHOOSE i \in 1..Len(s) :
                        /\ IsDigit(s[i])
                        /\ \A j \in 1..(i - 1) : ~IsDigit(s[j])
             last == CHOOSE k \in first..Len(s) :
                        /\ \A j \in first..k : IsDigit(s[j])
                        /\ (k = Len(s) \/ ~IsDigit(s[k + 1]))
         IN SubSeq(s, first, last)

parse_sku_to_slot(sku) ==
    IF PyNot(sku) \/ IsNa(sku) THEN None
    ELSE LET sku_str == StrStrip(PyStr(sku))
         IN IF sku_str = <<>> THEN None
            ELSE IF FirstDigitRun(sku_str) # <<>>
                 THEN Some(DigitsToInt(FirstDigitRun(sku_str)))
                 ELSE None

\* ------------------------------------------------------------ row filter
\* A table is [columns |-> sequence of column names, rows |-> sequence of
\* rows]; a row is a function from the table's columns to cells (a pandas
\* Series).  The index labels of the rows are 1..Len(rows) (the RangeIndex
\* load_csv gives).
ColumnSet(columns) == {columns[i] : i \in 1..Len(columns)}

\* Series.get(key, default)
RowGet(row, key, default) == IF key \in DOMAIN row THEN row[key] ELSE default

\* a faulty variant of should_exclude_row: the product name is not lowered
should_exclude_row_case_sensitive(row, exclude_keywords) ==
    IF exclude_keywords = <<>> THEN FALSE
    ELSE LET product_name == PyStr(RowGet(row, "product name", StrV(<<>>)))
         IN \E k \in 1..Len(exclude_keywords) :
                StrContains(StrLower(exclude_keywords[k]), product_name)

should_exclude_row(row, exclude_keywords) ==
    IF exclude_keywords = <<>> THEN FALSE
    ELSE LET product_name == StrLower(PyStr(RowGet(row, "product name", StrV(<<>>))))
         IN \E k \in 1..Len(exclude_keywords) :
                StrContains(StrLower(exclude_keywords[k]), product_name)

should_include_row(row, include_keywords) ==
    IF include_keywords = <<>> THEN TRUE
    ELSE LET product_name == StrLower(PyStr(RowGet(row, "product name", StrV(<<>>))))
         IN \E k \in 1..Len(include_keywords) :
                StrContains(StrLower(include_keywords[k]), product_name)

\* ------------------------------------------------------------ detect_mode
\* df['sku'].apply(lambda x: parse_sku_to_slot(x) is not None).sum()
ValidSkus(df) ==
    Cardinality({i \in 1..Len(df.rows) : parse_sku_to_slot(df.rows[i]["sku"]) # None})

\* a faulty variant of the threshold test: sku_ratio > 0.8
RatioAboveThreshold(valid_skus, total_rows) == 5 * valid_skus > 4 * total_rows

\* sku_ratio >= 0.8, with sku_ratio = valid_skus / total_rows: the quotient
\* of two row counts is at least the double nearest 0.8 exactly when it is
\* at least 4/5
RatioAtLeastThreshold(valid_skus, total_rows) == 5 * valid_skus >= 4 * total_rows

detect_mode(df) ==
    IF "sku" \notin ColumnSet(df.columns) THEN "sequence"
    ELSE IF Len(df.rows) = 0 THEN "sequence"
    ELSE IF RatioAtLeastThreshold(ValidSkus(df), Len(df.rows)) THEN "sku"
    ELSE "sequence"

\* the keyword-list normalisation of match()
NormalizeKeywords(keywords) == [k \in 1..Len(keywords) |-> StrStrip(keywords[k])]

\* a faulty variant of the emptiness test: the check is left out
IsEmptyUnchecked(df) == FALSE

\* DataFrame.empty: an axis of length 0
IsEmpty(df) == Len(df.rows) = 0 \/ Len(df.columns) = 0

\* ------------------------------------------------------------------ state
VARIABLES
    args,                \* the call's arguments: df, mode, start_slot,
                         \* exclude_keywords, include_keywords
    pc,                  \* position in match()
    mode,                \* local `mode` (rebound when "auto" is resolved)
    exclude_keywords,    \* local, rebound by the normalisation
    include_keywords,    \* local, rebound by the normalisation
    columns,             \* columns of the working copy of df, in order
    index,               \* index labels of the working copy, in row order
    cells,               \* label -> the annotation cells (and _sort_key)
    pos,                 \* position of the row loop in index
    current_slot,
    total_rows,
    excluded_count,
    matched_count,
    needs_review_count,
    slot_usage,          \* dict in insertion order: <<[slot, indices], ...>>
    duplicate_count,
    filter_calls,        \* label -> the filter functions called for the row
    error,               \* message of the ValueError raised, "" when none
    result,              \* None, or Some([df, summary]) once returned
    surface              \* the caller of match(): a direct call, the
                         \* command line or an HTTP endpoint, and its state

vars == <<args, pc, mode, exclude_keywords, include_keywords, columns, index,
          cells, pos, current_slot, total_rows, excluded_count, matched_count,
          needs_review_count, slot_usage, duplicate_count, filter_calls,
          error, result, surface>>

NoMethod == "None"
NaT == <<>>

AnnotationColumns ==
    <<"slot", "matched_item_label", "match_method", "needs_review", "review_reason">>

\* the cells match() initialises for every row (lines 177-181)
InitialCells ==
    [slot |-> None, matched_item_label |-> None, match_method |-> NoMethod,
     needs_review |-> FALSE, review_reason |-> <<>>, sort_key |-> NaT]

\* f"Item #{slot}"
ItemLabel(slot) == <<"Item #">> \o IntStr(slot)

\* the variables match() has not assigned yet
Unassigned ==
    /\ columns = <<>>
    /\ index = <<>>
    /\ cells = <<>>
    /\ pos = 1
    /\ current_slot = 0
    /\ total_rows = 0
    /\ excluded_count = 0
    /\ matched_count = 0
    /\ needs_review_count = 0
    /\ slot_usage = <<>>
    /\ duplicate_count = 0
    /\ filter_calls = <<>>
    /\ error = ""
    /\ result = None

\* match() is called directly, by no surface
DirectCall == [kind |-> "direct"]

\* a call of match() with its arguments drawn from the given sets
InitWith(tables, modes, start_slots, exclude_lists, include_lists) ==
    /\ args \in [df : tables, mode : modes, start_slot : start_slots,
                 exclude_keywords : exclude_lists,
                 include_keywords : include_lists]
    /\ pc = "start"
    /\ mode = args.mode
    /\ exclude_keywords = args.exclude_keywords
    /\ include_keywords = args.include_keywords
    /\ surface = DirectCall
    /\ Unassigned

\* ------------------------------------------------ match(): entry, 161-188
\* `mode` after lines 169-170
ResolvedMode == IF args.mode = "auto" THEN detect_mode(args.df) ELSE args.mode

ValidModes == {"sku", "sequence"}

\* lines 161-162
RaiseEmpty ==
    /\ pc = "start"
    /\ IsEmpty(args.df)
    /\ pc' = "raised"
    /\ error' = "DataFrame is empty"
    /\ UNCHANGED <<args, surface, mode, exclude_keywords, include_keywords, columns,
                   index, cells, pos, current_slot, total_rows, excluded_count,
                   matched_count, needs_review_count, slot_usage,
                   duplicate_count, filter_calls, result>>

\* lines 165-173, the mode is rejected
RaiseInvalidMode ==
    /\ pc = "start"
    /\ ~IsEmpty(args.df)
    /\ ResolvedMode \notin ValidModes
    /\ exclude_keywords' = NormalizeKeywords(args.exclude_keywords)
    /\ include_keywords' = NormalizeKeywords(args.include_keywords)
    /\ mode' = ResolvedMode
    /\ pc' = "raised"
    /\ error' = "Invalid mode"
    /\ UNCHANGED <<args, surface, columns, index, cells, pos, current_slot, total_rows,
                   excluded_count, matched_count, needs_review_count,
                   slot_usage, duplicate_count, filter_calls, result>>

\* lines 165-190: normalise, resolve the mode, copy df and add the columns
Begin ==
    /\ pc = "start"
    /\ ~IsEmpty(args.df)
    /\ ResolvedMode \in ValidModes
    /\ exclude_keywords' = NormalizeKeywords(args.exclude_keywords)
    /\ include_keywords' = NormalizeKeywords(args.include_keywords)
    /\ mode' = ResolvedMode
    /\ columns' = args.df.columns \o AnnotationColumns
    /\ index' = [i \in 1..Len(args.df.rows) |-> i]
    /\ cells' = [i \in 1..Len(args.df.rows) |-> InitialCells]
    /\ filter_calls' = [i \in 1..Len(args.df.rows) |-> <<>>]
    /\ total_rows' = Len(args.df.rows)
    /\ excluded_count' = 0
    /\ matched_count' = 0
    /\ needs_review_count' = 0
    /\ slot_usage' = <<>>
    /\ pos' = 1
    /\ pc' = IF ResolvedMode = "sku"
             THEN (IF Len(args.df.rows) = 0 THEN "duplicates" ELSE "sku_loop")
             ELSE "sort"
    /\ UNCHANGED <<args, surface, current_slot, duplicate_count, error, result>>

\* ------------------------------------------- sequence mode: sort, 226-237
\* pd.to_datetime(value, errors='coerce'), abstracted: a timestamp is
\* written as a string of digits (surrounding blanks allowed) and parses to
\* the number it spells, so that different strings can spell the same
\* instant; every other cell is NaT.
to_datetime(v) ==
    IF v.kind # "str" THEN NaT
    ELSE LET t == StrStrip(v.s)
         IN IF t # <<>> /\ \A i \in 1..Len(t) : IsDigit(t[i])
            THEN Some(DigitsToInt(t))
            ELSE NaT

IndexPermutations(n) ==
    {p \in [1..n -> 1..n] : \A i, j \in 1..n : i # j => p[i] # p[j]}

\* DataFrame.sort_values(by) with its defaults (ascending, kind='quicksort',
\* na_position='last') on the keys of the rows, by label: the keys that are
\* not NaT ascend, the NaT rows follow in their original order.  quicksort
\* is not a stable sort, so rows with equal keys come in any order.
SortOrders(keys) ==
    {p \in IndexPermutations(Len(keys)) :
        \A i, j \in 1..Len(keys) :
            i < j =>
                /\ keys[p[i]] = NaT => (keys[p[j]] = NaT /\ p[i] < p[j])
                /\ (keys[p[i]] # NaT /\ keys[p[j]] # NaT)
                       => keys[p[i]][1] <= keys[p[j]][1]}

\* Lines 226-237.  With errors='coerce' an unparseable cell becomes NaT
\* instead of raising, so the `except: pass` path is not taken on the
\* modelled tables; the _sort_key column stays in the working copy.
SortRows ==
    /\ pc = "sort"
    /\ IF "placed at" \in ColumnSet(columns)
       THEN LET keys == [i \in 1..Len(index) |->
                            to_datetime(args.df.rows[i]["placed at"])]
            IN /\ cells' = [i \in DOMAIN cells |->
                               [cells[i] EXCEPT !.sort_key = keys[i]]]
               /\ columns' = Append(columns, "_sort_key")
               /\ index' \in SortOrders(keys)
       ELSE UNCHANGED <<cells, columns, index>>
    /\ current_slot' = args.start_slot
    /\ pc' = IF Len(index) = 0 THEN "duplicates" ELSE "seq_loop"
    /\ UNCHANGED <<args, surface, mode, exclude_keywords, include_keywords, pos,
                   total_rows, excluded_count, matched_count,
                   needs_review_count, slot_usage, duplicate_count,
                   filter_calls, error, result>>

\* ------------------------------------------------------ the row loops
\* slot_usage[slot].append(idx), or slot_usage[slot] = [idx]
RecordSlot(usage, slot, idx) ==
    IF \E k \in 1..Len(usage) : usage[k].slot = slot
    THEN [k \in 1..Len(usage) |->
             IF usage[k].slot = slot
             THEN [usage[k] EXCEPT !.indices = Append(@, idx)]
             ELSE usage[k]]
    ELSE Append(usage, [slot |-> slot, indices |-> <<idx>>])

\* a faulty variant of the sku turn: a row failing the include list is not
\* counted as excluded
SkuRowOutcomeUncounted(row, cell, excl, incl) ==
    IF should_exclude_row(row, excl)
    THEN [cell |-> [cell EXCEPT !.match_method = "excluded"],
          excluded |-> 1, matched |-> 0, review |-> 0, slot |-> None,
          calls |-> <<"should_exclude_row">>]
    ELSE IF ~should_include_row(row, incl)
    THEN [cell |-> [cell EXCEPT !.match_method = "excluded"],
          excluded |-> 0, matched |-> 0, review |-> 0, slot |-> None,
          calls |-> <<"should_exclude_row", "should_include_row">>]
    ELSE LET slot_num == parse_sku_to_slot(RowGet(row, "sku", NoneV))
         IN IF slot_num = None
            THEN [cell |-> [cell EXCEPT !.match_method = "manual_review",
                                        !.needs_review = TRUE,
                                        !.review_reason = <<"sku_missing_or_invalid">>],
                  excluded |-> 0, matched |-> 0, review |-> 1, slot |-> None,
                  calls |-> <<"should_exclude_row", "should_include_row">>]
            ELSE [cell |-> [cell EXCEPT !.slot = slot_num,
                                        !.matched_item_label = ItemLabel(slot_num[1]),
                                        !.match_method = "sku"],
                  excluded |-> 0, matched |-> 1, review |-> 0, slot |-> slot_num,
                  calls |-> <<"should_exclude_row", "should_include_row">>]

\* a faulty variant of the sku turn: a row whose identifier does not parse
\* is given the slot 0 and the method sku
SkuRowOutcomeDefaultSlot(row, cell, excl, incl) ==
    IF should_exclude_row(row, excl)
    THEN [cell |-> [cell EXCEPT !.match_method = "excluded"],
          excluded |-> 1, matched |-> 0, review |-> 0, slot |-> None,
          calls |-> <<"should_exclude_row">>]
    ELSE IF ~should_include_row(row, incl)
    THEN [cell |-> [cell EXCEPT !.match_method = "excluded"],
          excluded |-> 1, matched |-> 0, review |-> 0, slot |-> None,
          calls |-> <<"should_exclude_row", "should_include_row">>]
    ELSE LET slot_num == parse_sku_to_slot(RowGet(row, "sku", NoneV))
         IN IF slot_num = None
            THEN [cell |-> [cell EXCEPT !.slot = Some(0),
                                        !.match_method = "manual_review",
                                        !.needs_review = TRUE,
                                        !.review_reason = <<"sku_missing_or_invalid">>],
                  excluded |-> 0, matched |-> 0, review |-> 1, slot |-> None,
                  calls |-> <<"should_exclude_row", "should_include_row">>]
            ELSE [cell |-> [cell EXCEPT !.slot = slot_num,
                                        !.matched_item_label = ItemLabel(slot_num[1]),
                                        !.match_method = "sku"],
                  excluded |-> 0, matched |-> 1, review |-> 0, slot |-> slot_num,
                  calls |-> <<"should_exclude_row", "should_include_row">>]

\* a faulty variant of the sku turn: a row whose identifier does not parse
\* is recorded in slot_usage under slot 1
SkuRowOutcomeRecordsUnparsed(row, cell, excl, incl) ==
    IF should_exclude_row(row, excl)
    THEN [cell |-> [cell EXCEPT !.match_method = "excluded"],
          excluded |-> 1, matched |-> 0, review |-> 0, slot |-> None,
          calls |-> <<"should_exclude_row">>]
    ELSE IF ~should_include_row(row, incl)
    THEN [cell |-> [cell EXCEPT !.match_method = "excluded"],
          excluded |-> 1, matched |-> 0, review |-> 0, slot |-> None,
          calls |-> <<"should_exclude_row", "should_include_row">>]
    ELSE LET slot_num == parse_sku_to_slot(RowGet(row, "sku", NoneV))
         IN IF slot_num = None
            THEN [cell |-> [cell EXCEPT !.match_method = "manual_review",
                                        !.needs_review = TRUE,
                                        !.review_reason = <<"sku_missing_or_invalid">>],
                  excluded |-> 0, matched |-> 0, review |-> 1, slot |-> Some(1),
                  calls |-> <<"should_exclude_row", "should_include_row">>]
            ELSE [cell |-> [cell EXCEPT !.slot = slot_num,
                                        !.matched_item_label = ItemLabel(slot_num[1]),
                                        !.match_method = "sku"],
                  excluded |-> 0, matched |-> 1, review |-> 0, slot |-> slot_num,
                  calls |-> <<"should_exclude_row", "should_include_row">>]

\* What one turn of the sku loop (lines 192-224) does to a row: the row's
\* new cells, what it adds to the counters, the slot to record (None when
\* none) and the filter functions it called.
SkuRowOutcome(row, cell, excl, incl) ==
    IF should_exclude_row(row, excl)
    THEN [cell |-> [cell EXCEPT !.match_method = "excluded"],
          excluded |-> 1, matched |-> 0, review |-> 0, slot |-> None,
          calls |-> <<"should_exclude_row">>]
    ELSE IF ~should_include_row(row, incl)
    THEN [cell |-> [cell EXCEPT !.match_method = "excluded"],
          excluded |-> 1, matched |-> 0, review |-> 0, slot |-> None,
          calls |-> <<"should_exclude_row", "should_include_row">>]
    ELSE LET slot_num == parse_sku_to_slot(RowGet(row, "sku", NoneV))
         IN IF slot_num = None
            THEN [cell |-> [cell EXCEPT !.match_method = "manual_review",
                                        !.needs_review = TRUE,
                                        !.review_reason = <<"sku_missing_or_invalid">>],
                  excluded |-> 0, matched |-> 0, review |-> 1, slot |-> None,
                  calls |-> <<"should_exclude_row", "should_include_row">>]
            ELSE [cell |-> [cell EXCEPT !.slot = slot_num,
                                        !.matched_item_label = ItemLabel(slot_num[1]),
                                        !.match_method = "sku"],
                  excluded |-> 0, matched |-> 1, review |-> 0, slot |-> slot_num,
                  calls |-> <<"should_exclude_row", "should_include_row">>]

\* a faulty variant of the sequence turn: an excluded row advances the
\* counter
SeqRowOutcomeGap(row, cell, excl, incl, slot) ==
    IF should_exclude_row(row, excl)
    THEN [cell |-> [cell EXCEPT !.match_method = "excluded"],
          excluded |-> 1, matched |-> 0, review |-> 0, slot |-> None,
          next |-> slot + 1, calls |-> <<"should_exclude_row">>]
    ELSE IF ~should_include_row(row, incl)
    THEN [cell |-> [cell EXCEPT !.match_method = "excluded"],
          excluded |-> 1, matched |-> 0, review |-> 0, slot |-> None,
          next |-> slot + 1,
          calls |-> <<"should_exclude_row", "should_include_row">>]
    ELSE [cell |-> [cell EXCEPT !.slot = Some(slot),
                                !.matched_item_label = ItemLabel(slot),
                                !.match_method = "sequence"],
          excluded |-> 0, matched |-> 1, review |-> 0, slot |-> Some(slot),
          next |-> slot + 1,
          calls |-> <<"should_exclude_row", "should_include_row">>]

\* What one turn of the sequence loop (lines 239-264) does to a row; next is
\* current_slot after the turn.
SeqRowOutcome(row, cell, excl, incl, slot) ==
    IF should_exclude_row(row, excl)
    THEN [cell |-> [cell EXCEPT !.match_method = "excluded"],
          excluded |-> 1, matched |-> 0, review |-> 0, slot |-> None,
          next |-> slot, calls |-> <<"should_exclude_row">>]
    ELSE IF ~should_include_row(row, incl)
    THEN [cell |-> [cell EXCEPT !.match_method = "excluded"],
          excluded |-> 1, matched |-> 0, review |-> 0, slot |-> None,
          next |-> slot,
          calls |-> <<"should_exclude_row", "should_include_row">>]
    ELSE [cell |-> [cell EXCEPT !.slot = Some(slot),
                                !.matched_item_label = ItemLabel(slot),
                                !.match_method = "sequence"],
          excluded |-> 0, matched |-> 1, review |-> 0, slot |-> Some(slot),
          next |-> slot + 1,
          calls |-> <<"should_exclude_row", "should_include_row">>]

\* one turn of `for idx, row in df.iterrows()` in sku mode
SkuRow ==
    /\ pc = "sku_loop"
    /\ pos <= Len(index)
    /\ LET idx == index[pos]
           o == SkuRowOutcome(args.df.rows[idx], cells[idx],
                              exclude_keywords, include_keywords)
       IN /\ cells' = [cells EXCEPT ![idx] = o.cell]
          /\ excluded_count' = excluded_count + o.excluded
          /\ matched_count' = matched_count + o.matched
          /\ needs_review_count' = needs_review_count + o.review
          /\ slot_usage' = IF o.slot = None THEN slot_usage
                           ELSE RecordSlot(slot_usage, o.slot[1], idx)
          /\ filter_calls' = [filter_calls EXCEPT ![idx] = o.calls]
    /\ pos' = pos + 1
    /\ pc' = IF pos = Len(index) THEN "duplicates" ELSE "sku_loop"
    /\ UNCHANGED <<args, surface, mode, exclude_keywords, include_keywords, columns,
                   index, current_slot, total_rows, duplicate_count, error,
                   result>>

\* one turn of `for idx, row in df.iterrows()` in sequence mode
SeqRow ==
    /\ pc = "seq_loop"
    /\ pos <= Len(index)
    /\ LET idx == index[pos]
           o == SeqRowOutcome(args.df.rows[idx], cells[idx],
                              exclude_keywords, include_keywords, current_slot)
       IN /\ cells' = [cells EXCEPT ![idx] = o.cell]
          /\ excluded_count' = excluded_count + o.excluded
          /\ matched_count' = matched_count + o.matched
          /\ needs_review_count' = needs_review_count + o.review
          /\ slot_usage' = IF o.slot = None THEN slot_usage
                           ELSE RecordSlot(slot_usage, o.slot[1], idx)
          /\ current_slot' = o.next
          /\ filter_calls' = [filter_calls EXCEPT ![idx] = o.calls]
    /\ pos' = pos + 1
    /\ pc' = IF pos = Len(index) THEN "duplicates" ELSE "seq_loop"
    /\ UNCHANGED <<args, surface, mode, exclude_keywords, include_keywords, columns,
                   index, total_rows, duplicate_count, error, result>>

\* ------------------------------------------- duplicate detection, 266-279
\* a faulty variant of the group test: len(indices) > 2
IsDuplicateGroupOfThree(indices) == Len(indices) > 2

\* len(indices) > 1
IsDuplicateGroup(indices) == Len(indices) > 1

\* a faulty variant of the reason update: the reason is left as it was
DuplicateReasonDropped(existing_reason) == existing_reason

\* the new review_reason of a row of a duplicate group (lines 273-277)
DuplicateReason(existing_reason) ==
    IF existing_reason # <<>>
    THEN existing_reason \o <<"; ", "duplicate_slot">>
    ELSE <<"duplicate_slot">>

\* a faulty variant of the inner loop: the rows it flags are not counted
RECURSIVE FlagIndicesUncounted(_, _)
FlagIndicesUncounted(indices, st) ==
    IF indices = <<>> THEN st
    ELSE LET idx == Head(indices)
             flagged == [st.cells EXCEPT
                            ![idx].needs_review = TRUE,
                            ![idx].review_reason = DuplicateReason(@)]
         IN FlagIndicesUncounted(Tail(indices),
                [cells |-> flagged, review |-> st.review,
                 duplicates |-> st.duplicates])

\* the inner loop `for idx in indices` on the state st = [cells, review]
RECURSIVE FlagIndices(_, _)
FlagIndices(indices, st) ==
    IF indices = <<>> THEN st
    ELSE LET idx == Head(indices)
             flagged == [st.cells EXCEPT
                            ![idx].needs_review = TRUE,
                            ![idx].review_reason = DuplicateReason(@)]
         IN FlagIndices(Tail(indices),
                [cells |-> flagged,
                 review |-> IF st.cells[idx].match_method # "manual_review"
                            THEN st.review + 1 ELSE st.review,
                 duplicates |-> st.duplicates])

\* the outer loop `for slot_num, indices in slot_usage.items()`
RECURSIVE FlagDuplicates(_, _)
FlagDuplicates(usage, st) ==
    IF usage = <<>> THEN st
    ELSE IF IsDuplicateGroup(Head(usage).indices)
    THEN FlagDuplicates(Tail(usage),
             FlagIndices(Head(usage).indices,
                 [st EXCEPT !.duplicates = @ + 1]))
    ELSE FlagDuplicates(Tail(usage), st)

DetectDuplicates ==
    /\ pc = "duplicates"
    /\ LET st == FlagDuplicates(slot_usage,
                     [cells |-> cells, review |-> needs_review_count,
                      duplicates |-> 0])
       IN /\ cells' = st.cells
          /\ needs_review_count' = st.review
          /\ duplicate_count' = st.duplicates
    /\ pc' = "summary"
    /\ UNCHANGED <<args, surface, mode, exclude_keywords, include_keywords, columns,
                   index, pos, current_slot, total_rows, excluded_count,
                   matched_count, slot_usage, filter_calls, error, result>>

\* The cells of a whole sku run (lines 176-279) on the rows given, with the
\* keywords already normalised: the sku loop over the rows in order, then
\* the duplicate pass.
SkuRun(rows, excl, incl) ==
    LET n == Len(rows)
        loop[k \in 0..n] ==
            IF k = 0
            THEN [cells |-> [i \in 1..n |-> InitialCells], usage |-> <<>>,
                  review |-> 0]
            ELSE LET o == SkuRowOutcome(rows[k], loop[k - 1].cells[k], excl, incl)
                 IN [cells |-> [loop[k - 1].cells EXCEPT ![k] = o.cell],
                     usage |-> IF o.slot = None THEN loop[k - 1].usage
                               ELSE RecordSlot(loop[k - 1].usage, o.slot[1], k),
                     review |-> loop[k - 1].review + o.review]
    IN FlagDuplicates(loop[n].usage,
           [cells |-> loop[n].cells, review |-> loop[n].review,
            duplicates |-> 0]).cells

\* --------------------------------------------------- summary, 281-294
Summary ==
    [total_rows |-> total_rows,
     matched |-> matched_count,
     excluded |-> excluded_count,
     needs_review |-> needs_review_count,
     duplicate_slots |-> duplicate_count,
     mode_used |-> mode,
     start_slot |-> args.start_slot,
     exclude_keywords |-> exclude_keywords,
     include_keywords |-> include_keywords]

\* the DataFrame returned: the working copy, its rows in index order
ReturnedFrame ==
    [columns |-> columns, index |-> index, data |-> args.df.rows, cells |-> cells]

BuildSummary ==
    /\ pc = "summary"
    /\ result' = Some([df |-> ReturnedFrame, summary |-> Summary])
    /\ pc' = "done"
    /\ UNCHANGED <<args, surface, mode, exclude_keywords, include_keywords, columns,
                   index, cells, pos, current_slot, total_rows, excluded_count,
                   matched_count, needs_review_count, slot_usage,
                   duplicate_count, filter_calls, error>>

Next ==
    \/ RaiseEmpty
    \/ RaiseInvalidMode
    \/ Begin
    \/ SortRows
    \/ SkuRow
    \/ SeqRow
    \/ DetectDuplicates
    \/ BuildSummary

\* ------------------------------------------------------------- the calls
\* The cells a call's table is drawn from, by column.
ProductNames == {StrV(<<"G","i">>), StrV(<<"p","o">>)}
Skus == {NaNV, StrV(<<"A","1">>), StrV(<<"b","0","2">>)}
PlacedAts == {NaNV, StrV(<<"1">>), StrV(<<"2">>)}
FewPlacedAts == {NaNV, StrV(<<"1">>)}

\* the rows over the columns cols, the cells of column c drawn from of[c]
RowsOver(cols, of) ==
    {r \in [ColumnSet(cols) -> UNION {of[c] : c \in ColumnSet(cols)}] :
        \A c \in ColumnSet(cols) : r[c] \in of[c]}

\* the tables of at most n rows over the columns cols
TablesOver(cols, of, n) ==
    {[columns |-> cols, rows |-> rows] :
        rows \in UNION {[1..k -> RowsOver(cols, of)] : k \in 0..n}}

Modes == {"auto", "sku", "sequence", "fifo"}
StartSlots == {1, 4}
ExcludeLists == {<<>>, << <<" ","g","i">> >>}
IncludeLists == {<<>>, << <<"P","O"," ">> >>}

\* The general specification: tables with an identifier column, with a
\* timestamp column, or with neither.
Cells == [c \in {"product name", "sku", "placed at"} |->
             CASE c = "product name" -> ProductNames
               [] c = "sku" -> Skus
               [] c = "placed at" -> FewPlacedAts]

Tables ==
    TablesOver(<<"product name", "sku">>, Cells, MaxRows)
    \cup TablesOver(<<"product name", "placed at">>, Cells, MaxRows)
    \cup TablesOver(<<"product name">>, Cells, MaxRows)

Init == InitWith(Tables, Modes, StartSlots, ExcludeLists, IncludeLists)

Spec == Init /\ [][Next]_vars

\* The sequence-mode specification: tables with a timestamp column whose
\* cells parse to two different instants or do not parse.
SeqCells == [c \in {"product name", "placed at"} |->
                CASE c = "product name" -> ProductNames
                  [] c = "placed at" -> PlacedAts]

SeqTables == TablesOver(<<"product name", "placed at">>, SeqCells, MaxSeqRows)

InitSeq == InitWith(SeqTables, Modes, StartSlots, ExcludeLists, IncludeLists)

SpecSeq == InitSeq /\ [][Next]_vars

\* The mode-detection specification: tables of up to MaxAutoRows rows, with
\* or without an identifier column.
AutoCells == [c \in {"product name", "sku"} |->
                 CASE c = "product name" -> {StrV(<<"p","o">>)}
                   [] c = "sku" -> {NaNV, StrV(<<"A","1">>)}]

AutoTables ==
    TablesOver(<<"product name", "sku">>, AutoCells, MaxAutoRows)
    \cup TablesOver(<<"product name">>, AutoCells, MaxAutoRows)

InitAuto == InitWith(AutoTables, Modes, {1}, {<<>>}, {<<>>})

SpecAuto == InitAuto /\ [][Next]_vars

\* The parser specification: one call of parse_sku_to_slot on an identifier
\* value, a string of at most MaxSkuLen characters, a number or a null.
SkuChars == {"A", "0", "7", " ", "-"}

SkuValues ==
    {StrV(t) : t \in UNION {[1..k -> SkuChars] : k \in 0..MaxSkuLen}}
    \cup {NoneV, NaNV, IntV(0), IntV(7), IntV(120), IntV(-3),
          FloatV(0), FloatV(5)}

InitParse ==
    /\ args \in [sku : SkuValues]
    /\ pc = "parse"
    /\ mode = ""
    /\ exclude_keywords = <<>>
    /\ include_keywords = <<>>
    /\ surface = DirectCall
    /\ Unassigned

ParseSku ==
    /\ pc = "parse"
    /\ result' = Some(parse_sku_to_slot(args.sku))
    /\ pc' = "parsed"
    /\ UNCHANGED <<args, surface, mode, exclude_keywords, include_keywords, columns,
                   index, cells, pos, current_slot, total_rows, excluded_count,
                   matched_count, needs_review_count, slot_usage,
                   duplicate_count, filter_calls, error>>

NextParse == ParseSku

SpecParse == InitParse /\ [][NextParse]_vars

\* ------------------------------------------------- the calling surfaces
\* The command line (cli.py) and the two HTTP endpoints (main.py) read a
\* file, parse the keyword strings and call match().

MaxSurfaceRows == 2

\* `surface` of a call made through a surface is a record:
\*   kind       "cli", "match_endpoint" or "download_endpoint"
\*   pc         the surface's position
\*   mode, start_slot, exclude, include   the options as received
\*   file       [exists, readable, parses, df]: whether the path exists,
\*              whether reading it succeeds, whether pd.read_csv parses its
\*              bytes, and the frame read_csv yields
\*   raised     the class of the exception raised inside the try block
\*   status     the process exit code or the HTTP status, NoStatus before
HttpKinds == {"match_endpoint", "download_endpoint"}
NoStatus == -1

\* engine variables, left alone by the steps of a surface that do not call
engine == <<args, pc, mode, exclude_keywords, include_keywords, columns,
            index, cells, pos, current_slot, total_rows, excluded_count,
            matched_count, needs_review_count, slot_usage, duplicate_count,
            filter_calls, error, result>>

\* load_csv: a ValueError for bytes read_csv cannot parse and for an empty
\* frame, the frame otherwise
load_csv(file_bytes) ==
    IF ~file_bytes.parses THEN [raises |-> "ValueError", df |-> file_bytes.df]
    ELSE IF IsEmpty(file_bytes.df)
         THEN [raises |-> "ValueError", df |-> file_bytes.df]
         ELSE [raises |-> "", df |-> file_bytes.df]

\* s.split(',')
RECURSIVE SplitCommas(_)
SplitCommas(s) ==
    IF \A i \in 1..Len(s) : s[i] # ","
    THEN <<s>>
    ELSE LET i == CHOOSE i \in 1..Len(s) :
                      s[i] = "," /\ \A j \in 1..(i - 1) : s[j] # ","
         IN <<SubSeq(s, 1, i - 1)>> \o SplitCommas(SubSeq(s, i + 1, Len(s)))

\* [k.strip() for k in s.split(',') if k.strip()]
ParseKeywords(s) ==
    LET parts == SplitCommas(s)
        kept == SelectSeq(parts, LAMBDA k : StrStrip(k) # <<>>)
    IN [k \in 1..Len(kept) |-> StrStrip(kept[k])]

\* isinstance(exc, cls) over the exception classes the surfaces meet;
\* HTTPException, ValueError and OSError all derive from Exception
IsInstance(exc, cls) == cls = "Exception" \/ exc = cls

\* the except clauses of the endpoints, in order: ValueError, then Exception
HttpStatusFor(exc) ==
    IF IsInstance(exc, "ValueError") THEN 400
    ELSE IF IsInstance(exc, "Exception") THEN 500
    ELSE NoStatus

\* match(df, mode=..., start_slot=..., exclude_keywords=..., include_keywords=...)
CallMatch(df) ==
    /\ args' = [df |-> df, mode |-> surface.mode,
                start_slot |-> surface.start_slot,
                exclude_keywords |-> ParseKeywords(surface.exclude),
                include_keywords |-> ParseKeywords(surface.include)]
    /\ pc' = "start"
    /\ mode' = surface.mode
    /\ exclude_keywords' = ParseKeywords(surface.exclude)
    /\ include_keywords' = ParseKeywords(surface.include)
    /\ UNCHANGED <<columns, index, cells, pos, current_slot, total_rows,
                   excluded_count, matched_count, needs_review_count,
                   slot_usage, duplicate_count, filter_calls, error, result>>

\* the surface ends with the exception exc caught and the given status
Failed(exc, status) ==
    [surface EXCEPT !.pc = "finished", !.raised = exc, !.status = status]

\* main.py 51-58 and 112-118: the mode and the start slot are validated
\* inside the try block, by raising HTTPException
HttpValidate ==
    /\ surface.kind \in HttpKinds
    /\ surface.pc = "validate"
    /\ surface' =
         IF surface.mode \notin {"auto", "sku", "sequence"}
         THEN Failed("HTTPException", HttpStatusFor("HTTPException"))
         ELSE IF surface.start_slot < 1
              THEN Failed("HTTPException", HttpStatusFor("HTTPException"))
              ELSE [surface EXCEPT !.pc = "load"]
    /\ UNCHANGED engine

\* main.py 60-76 and 120-136: read the upload, load it, call match()
HttpLoad ==
    /\ surface.kind \in HttpKinds
    /\ surface.pc = "load"
    /\ IF ~surface.file.readable
       THEN /\ surface' = Failed("OSError", HttpStatusFor("OSError"))
            /\ UNCHANGED engine
       ELSE IF load_csv(surface.file).raises # ""
            THEN /\ surface' = Failed(load_csv(surface.file).raises,
                                      HttpStatusFor(load_csv(surface.file).raises))
                 /\ UNCHANGED engine
            ELSE /\ surface' = [surface EXCEPT !.pc = "call"]
                 /\ CallMatch(load_csv(surface.file).df)

\* main.py 70-95 and 130-154: match() returned or raised its ValueError
HttpRespond ==
    /\ surface.kind \in HttpKinds
    /\ surface.pc = "call"
    /\ pc \in {"done", "raised"}
    /\ surface' = IF pc = "raised"
                  THEN Failed("ValueError", HttpStatusFor("ValueError"))
                  ELSE [surface EXCEPT !.pc = "finished", !.status = 200]
    /\ UNCHANGED engine

\* cli.py 43-71: argparse accepts --mode from its choices only and any
\* integer as --start-slot
CliParseArgs ==
    /\ surface.kind = "cli"
    /\ surface.pc = "parse_args"
    /\ surface' = IF surface.mode \notin {"auto", "sku", "sequence"}
                  THEN [surface EXCEPT !.pc = "finished", !.status = 2]
                  ELSE [surface EXCEPT !.pc = "load"]
    /\ UNCHANGED engine

\* cli.py 73-100: check the path, read and load the file, call match()
CliLoad ==
    /\ surface.kind = "cli"
    /\ surface.pc = "load"
    /\ IF ~surface.file.exists
       THEN /\ surface' = [surface EXCEPT !.pc = "finished", !.status = 1]
            /\ UNCHANGED engine
       ELSE IF ~surface.file.readable
            THEN /\ surface' = Failed("OSError", 1)
                 /\ UNCHANGED engine
            ELSE IF load_csv(surface.file).raises # ""
                 THEN /\ surface' = Failed(load_csv(surface.file).raises, 1)
                      /\ UNCHANGED engine
                 ELSE /\ surface' = [surface EXCEPT !.pc = "call"]
                      /\ CallMatch(load_csv(surface.file).df)

\* cli.py 102-130: write the output and exit 2 when rows need review, exit
\* 1 on the exception match() raised
CliFinish ==
    /\ surface.kind = "cli"
    /\ surface.pc = "call"
    /\ pc \in {"done", "raised"}
    /\ surface' = IF pc = "raised"
                  THEN Failed("ValueError", 1)
                  ELSE IF Summary.needs_review > 0
                       THEN [surface EXCEPT !.pc = "finished", !.status = 2]
                       ELSE [surface EXCEPT !.pc = "finished", !.status = 0]
    /\ UNCHANGED engine

NextSurface ==
    \/ Next
    \/ HttpValidate
    \/ HttpLoad
    \/ HttpRespond
    \/ CliParseArgs
    \/ CliLoad
    \/ CliFinish

\* The surface specification: direct calls of match(), command lines and
\* HTTP requests, over files holding tables of at most MaxSurfaceRows rows,
\* unparseable bytes, or nothing readable, and start slots on both sides
\* of 1.
SurfaceCells == [c \in {"product name", "sku"} |->
                    CASE c = "product name" -> ProductNames
                      [] c = "sku" -> {NaNV, StrV(<<"A","1">>)}]

SurfaceTables == TablesOver(<<"product name", "sku">>, SurfaceCells, MaxSurfaceRows)

NoFrame == [columns |-> <<>>, rows |-> <<>>]

SurfaceFiles ==
    {[exists |-> TRUE, readable |-> TRUE, parses |-> TRUE, df |-> t] :
        t \in SurfaceTables}
    \cup {[exists |-> TRUE, readable |-> TRUE, parses |-> FALSE, df |-> NoFrame],
          [exists |-> TRUE, readable |-> FALSE, parses |-> FALSE, df |-> NoFrame],
          [exists |-> FALSE, readable |-> FALSE, parses |-> FALSE, df |-> NoFrame]}

SurfaceStartSlots == {0, 1}
ExcludeStrings == {<<>>, <<" ","g","i",",">>}
IncludeStrings == {<<>>, <<"P","O"," ",",","x">>}

\* the engine before a surface has called it
Idle ==
    /\ args = [df |-> NoFrame, mode |-> "", start_slot |-> 1,
               exclude_keywords |-> <<>>, include_keywords |-> <<>>]
    /\ pc = "idle"
    /\ mode = ""
    /\ exclude_keywords = <<>>
    /\ include_keywords = <<>>
    /\ Unassigned

InitCli ==
    /\ surface \in [kind : {"cli"}, pc : {"parse_args"}, mode : Modes,
                    start_slot : SurfaceStartSlots, exclude : ExcludeStrings,
                    include : IncludeStrings, file : SurfaceFiles,
                    raised : {""}, status : {NoStatus}]
    /\ Idle

\* an upload always exists
InitHttp ==
    /\ surface \in [kind : HttpKinds, pc : {"validate"}, mode : Modes,
                    start_slot : SurfaceStartSlots, exclude : ExcludeStrings,
                    include : IncludeStrings,
                    file : {f \in SurfaceFiles : f.exists},
                    raised : {""}, status : {NoStatus}]
    /\ Idle

InitSurface ==
    \/ InitWith(SurfaceTables, Modes, SurfaceStartSlots, ExcludeLists, IncludeLists)
    \/ InitCli
    \/ InitHttp

SpecSurface == InitSurface /\ [][NextSurface]_vars

\* ------------------------------------------------------ the row filter
\* The filter specification: one call of should_exclude_row and of
\* should_include_row on a row whose product name is a string, is null or
\* has no column, with a list of at most MaxKeywords keywords of at most
\* MaxKeywordLen characters.
MaxKeywords == 2
MaxKeywordLen == 2

KeywordChars == {"n", "A"}

Keywords == UNION {[1..k -> KeywordChars] : k \in 1..MaxKeywordLen}

KeywordLists == UNION {[1..k -> Keywords] : k \in 0..MaxKeywords}

FilterRows ==
    {[c \in {"product name"} |-> v] :
        v \in {StrV(<<>>), StrV(<<"G","i","n">>), NaNV, NoneV}}
    \cup {[c \in {"sku"} |-> StrV(<<"A","1">>)]}

InitFilter ==
    /\ args \in [row : FilterRows, keywords : KeywordLists]
    /\ pc = "filter"
    /\ mode = ""
    /\ exclude_keywords = <<>>
    /\ include_keywords = <<>>
    /\ surface = DirectCall
    /\ Unassigned

FilterRow ==
    /\ pc = "filter"
    /\ result' = Some([exclude |-> should_exclude_row(args.row, args.keywords),
                       include |-> should_include_row(args.row, args.keywords)])
    /\ pc' = "filtered"
    /\ UNCHANGED <<args, surface, mode, exclude_keywords, include_keywords, columns,
                   index, cells, pos, current_slot, total_rows, excluded_count,
                   matched_count, needs_review_count, slot_usage,
                   duplicate_count, filter_calls, error>>

NextFilter == FilterRow

SpecFilter == InitFilter /\ [][NextFilter]_vars

\* ================================================================ claims
\* positions of index whose row the loop has processed
Processed == 1..(pos - 1)

InLoopOrAfter(loop) == pc \in {loop, "duplicates", "summary", "done"}

\* the processed positions whose row was not excluded
NotExcludedPositions ==
    {k \in Processed : cells[index[k]].match_method # "excluded"}

\* C1: in sequence mode the slots given to the rows that are not excluded,
\* taken in processing order, are start_slot, start_slot + 1, ... without
\* repeats or gaps: the k-th such row holds start_slot + k - 1, an excluded
\* row holds no slot, and the counter stands at start_slot plus the number
\* of rows assigned so far.
C1_SequenceSlotsContiguous ==
    (mode = "sequence" /\ InLoopOrAfter("seq_loop")) =>
        /\ \A k \in NotExcludedPositions :
               cells[index[k]].slot =
                   Some(args.start_slot
                        + Cardinality({j \in NotExcludedPositions : j < k}))
        /\ \A k \in Processed \ NotExcludedPositions :
               cells[index[k]].slot = None
        /\ current_slot = args.start_slot + Cardinality(NotExcludedPositions)

\* a finished sequence run over a timestamp column in which an excluded row
\* was processed between two assigned rows
C1_Witness ==
    /\ pc = "done"
    /\ mode = "sequence"
    /\ "placed at" \in ColumnSet(args.df.columns)
    /\ Len(index) >= 3
    /\ cells[index[1]].slot = Some(args.start_slot)
    /\ cells[index[2]].match_method = "excluded"
    /\ cells[index[3]].slot = Some(args.start_slot + 1)
    /\ index # <<1, 2, 3>>

\* the table and the summary a finished call returned
Returned == result # None
OutCells == result[1].df.cells
OutIndex == result[1].df.index
OutSummary == result[1].summary
OutLabels == DOMAIN OutCells

\* the rows of the returned table holding the slot s
RowsWithSlot(s) == {i \in OutLabels : OutCells[i].slot = Some(s)}

\* the slots held by some row of the returned table
AssignedSlots == {OutCells[i].slot[1] : i \in {j \in OutLabels : OutCells[j].slot # None}}

HasReason(cell, code) ==
    \E k \in 1..Len(cell.review_reason) : cell.review_reason[k] = code

\* C2: after match(), in either mode, the rows of every slot held by more
\* than one row are all flagged needs_review with a reason containing
\* duplicate_slot, no row whose slot is unique (or that has no slot)
\* carries duplicate_slot, and summary['duplicate_slots'] is the number of
\* slots held by more than one row.
C2_DuplicateSlotsFlagged ==
    Returned =>
        /\ \A i \in OutLabels :
               IF OutCells[i].slot # None
                  /\ Cardinality(RowsWithSlot(OutCells[i].slot[1])) > 1
               THEN OutCells[i].needs_review
                    /\ HasReason(OutCells[i], "duplicate_slot")
               ELSE ~HasReason(OutCells[i], "duplicate_slot")
        /\ OutSummary.duplicate_slots =
               Cardinality({s \in AssignedSlots : Cardinality(RowsWithSlot(s)) > 1})

\* a finished sku run in which two rows share a slot and a third row holds
\* a slot of its own
C2_Witness ==
    /\ Returned
    /\ OutSummary.mode_used = "sku"
    /\ OutSummary.duplicate_slots = 1
    /\ \E i, j, k \in OutLabels :
           /\ i # j
           /\ OutCells[i].slot # None
           /\ OutCells[i].slot = OutCells[j].slot
           /\ OutCells[k].slot # None
           /\ OutCells[k].slot # OutCells[i].slot
           /\ ~OutCells[k].needs_review

\* the text field of a row, as the claims read it: the string in the
\* product name column
TextField(row) == row["product name"].s

\* text holds keyword as a substring, letter case ignored
ContainsIgnoringCase(text, keyword) ==
    \E a \in 1..(Len(text) + 1) :
        \E b \in (a - 1)..Len(text) :
            /\ b - a + 1 = Len(keyword)
            /\ \A k \in 1..Len(keyword) :
                   LowerChar(text[a + k - 1]) = LowerChar(keyword[k])

\* the row holds one of the call's exclude keywords (trimmed)
HitsExclude(row) ==
    \E k \in 1..Len(args.exclude_keywords) :
        ContainsIgnoringCase(TextField(row), StrStrip(args.exclude_keywords[k]))

\* the call has include keywords and the row holds none of them
FailsInclude(row) ==
    /\ Len(args.include_keywords) > 0
    /\ \A k \in 1..Len(args.include_keywords) :
           ~ContainsIgnoringCase(TextField(row), StrStrip(args.include_keywords[k]))

\* C3: in both modes the exclude check of a row is made before its include
\* check; a processed row that holds an exclude keyword (the include check
\* is then never made) or that fails a non-empty include list is excluded,
\* with no slot, no label and needs_review false, whether or not its
\* identifier parses, and it is recorded under no slot.
C3_ExcludedBeforeIncluded ==
    (InLoopOrAfter("sku_loop") \/ InLoopOrAfter("seq_loop")) =>
        \A k \in Processed :
            LET idx == index[k]
                row == args.df.rows[idx]
            IN /\ filter_calls[idx] \in
                      {<<"should_exclude_row">>,
                       <<"should_exclude_row", "should_include_row">>}
               /\ HitsExclude(row) => filter_calls[idx] = <<"should_exclude_row">>
               /\ (HitsExclude(row) \/ FailsInclude(row)) =>
                      /\ cells[idx].match_method = "excluded"
                      /\ cells[idx].slot = None
                      /\ cells[idx].matched_item_label = None
                      /\ cells[idx].needs_review = FALSE
                      /\ \A u \in 1..Len(slot_usage) :
                             \A m \in 1..Len(slot_usage[u].indices) :
                                 slot_usage[u].indices[m] # idx

\* a finished sku run in which a row holding an exclude keyword (once the
\* keyword is trimmed and letter case ignored), with an identifier that
\* parses, is excluded while another row with the same identifier holds the
\* slot
C3_Witness ==
    /\ pc = "done"
    /\ mode = "sku"
    /\ "sku" \in ColumnSet(args.df.columns)
    /\ \E i, j \in DOMAIN cells :
           /\ HitsExclude(args.df.rows[i])
           /\ ~should_exclude_row(args.df.rows[i], args.exclude_keywords)
           /\ parse_sku_to_slot(args.df.rows[i]["sku"]) # None
           /\ cells[i].match_method = "excluded"
           /\ args.df.rows[j]["sku"] = args.df.rows[i]["sku"]
           /\ cells[j].match_method = "sku"
           /\ ~cells[j].needs_review

\* the rows of the call's table whose identifier parses to a slot
ParsingRows ==
    {i \in 1..Len(args.df.rows) : parse_sku_to_slot(args.df.rows[i]["sku"]) # None}

\* the table has an identifier column and at least 80% of its rows parse
MostIdentifiersParse ==
    /\ "sku" \in ColumnSet(args.df.columns)
    /\ 100 * Cardinality(ParsingRows) >= 80 * Len(args.df.rows)

\* C4: with mode = "auto", match() on a non-empty table resolves to "sku"
\* exactly when the table has an identifier column and at least 80% of the
\* rows parse (80% itself included), else to "sequence"; the summary
\* reports the resolved mode, never "auto".
C4_AutoResolvesByThreshold ==
    (args.mode = "auto" /\ pc # "start" /\ Len(args.df.rows) > 0) =>
        /\ pc # "raised"
        /\ mode = (IF MostIdentifiersParse THEN "sku" ELSE "sequence")
        /\ Returned => OutSummary.mode_used = mode

\* a finished auto run on five rows of which exactly four parse, resolved
\* to sku
C4_Witness ==
    /\ Returned
    /\ args.mode = "auto"
    /\ Len(args.df.rows) = 5
    /\ "sku" \in ColumnSet(args.df.columns)
    /\ Cardinality(ParsingRows) = 4
    /\ OutSummary.mode_used = "sku"
    /\ \E i \in OutLabels : OutCells[i].match_method = "manual_review"

\* the string has a decimal digit
HasDigit(s) == \E i \in 1..Len(s) : IsDigit(s[i])

\* the integer spelled by the leftmost maximal run of digits of s
LeftmostRunValue(s) ==
    LET run == CHOOSE r \in (1..Len(s)) \X (1..Len(s)) :
                   /\ r[1] <= r[2]
                   /\ \A i \in 1..Len(s) :
                          (i < r[1] => ~IsDigit(s[i]))
                          /\ ((r[1] <= i /\ i <= r[2]) => IsDigit(s[i]))
                   /\ (r[2] = Len(s) \/ ~IsDigit(s[r[2] + 1]))
    IN DigitsToInt(SubSeq(s, run[1], run[2]))

\* C5: parse_sku_to_slot returns, for every value (string or number) whose
\* string form has a decimal digit, the integer of the leftmost maximal run
\* of digits, and no result for every value that is absent, null, blank or
\* without a digit.
C5_ParseReturnsFirstDigitRun ==
    pc = "parsed" =>
        IF ~IsNa(args.sku) /\ HasDigit(PyStr(args.sku))
        THEN result[1] = Some(LeftmostRunValue(PyStr(args.sku)))
        ELSE result[1] = None

\* the parsed timestamp of the row with label i
ParsedTimestamp(i) == to_datetime(args.df.rows[i]["placed at"])

\* C6: in sequence mode over a timestamp column the rows are processed, and
\* the returned table is ordered, by ascending parsed timestamp; two rows
\* with equal parsed timestamps, and two rows that both fail to parse, keep
\* their original relative order.
C6_StableTimestampOrder ==
    (mode = "sequence" /\ InLoopOrAfter("seq_loop")
     /\ "placed at" \in ColumnSet(args.df.columns)) =>
        /\ \A a, b \in 1..Len(index) :
               a < b =>
                   LET ta == ParsedTimestamp(index[a])
                       tb == ParsedTimestamp(index[b])
                   IN /\ (ta # NaT /\ tb # NaT) => ta[1] <= tb[1]
                      /\ ta = tb => index[a] < index[b]
        /\ Returned => OutIndex = index

\* the rows of the returned table with one of the given methods
RowsWithMethod(methods) == {i \in OutLabels : OutCells[i].match_method \in methods}

\* C7: for every call that returns, matched + excluded + the number of
\* manual_review rows = total_rows = the number of input rows; matched is
\* the number of sku and sequence rows, excluded the number of excluded
\* rows.
C7_SummaryCountsAddUp ==
    Returned =>
        /\ OutSummary.total_rows = Len(args.df.rows)
        /\ OutLabels = 1..Len(args.df.rows)
        /\ OutSummary.matched + OutSummary.excluded
               + Cardinality(RowsWithMethod({"manual_review"}))
           = OutSummary.total_rows
        /\ OutSummary.matched = Cardinality(RowsWithMethod({"sku", "sequence"}))
        /\ OutSummary.excluded = Cardinality(RowsWithMethod({"excluded"}))

\* a returned sku run with a matched row, a manual_review row and a row
\* excluded for failing the include list
C7_Witness ==
    /\ Returned
    /\ OutSummary.matched = 1
    /\ OutSummary.excluded = 1
    /\ Cardinality(RowsWithMethod({"manual_review"})) = 1
    /\ \E i \in OutLabels :
           /\ OutCells[i].match_method = "excluded"
           /\ filter_calls[i] = <<"should_exclude_row", "should_include_row">>

\* C8: every row of the returned table has one method out of sku, sequence,
\* excluded and manual_review; its slot is set exactly when the method is
\* sku or sequence; a sku run gives no row sequence, a sequence run gives
\* no row sku or manual_review.
C8_OneMethodPerRow ==
    Returned =>
        \A i \in OutLabels :
            /\ OutCells[i].match_method \in
                   {"sku", "sequence", "excluded", "manual_review"}
            /\ OutCells[i].slot # None
                   <=> OutCells[i].match_method \in {"sku", "sequence"}
            /\ OutSummary.mode_used = "sku" =>
                   OutCells[i].match_method # "sequence"
            /\ OutSummary.mode_used = "sequence" =>
                   OutCells[i].match_method \notin {"sku", "manual_review"}

\* a returned sku run holding a row of each of the methods sku, excluded
\* and manual_review, the manual_review row without a slot
C8_Witness ==
    /\ Returned
    /\ OutSummary.mode_used = "sku"
    /\ \E i, j, k \in OutLabels :
           /\ OutCells[i].match_method = "sku" /\ OutCells[i].slot # None
           /\ OutCells[j].match_method = "excluded" /\ OutCells[j].slot = None
           /\ OutCells[k].match_method = "manual_review" /\ OutCells[k].slot = None

\* the reason is a list of reason codes joined by "; "
JoinedReasonCodes(reason) ==
    /\ reason # <<>> => Len(reason) % 2 = 1
    /\ \A k \in 1..Len(reason) :
           IF k % 2 = 1
           THEN reason[k] \in {"sku_missing_or_invalid", "duplicate_slot"}
           ELSE reason[k] = "; "

\* C9: in every row, from the first turn of the loop to the returned table,
\* needs_review is true exactly when review_reason is not empty, and the
\* reason is a "; "-joined list of reason codes; the duplicate pass flags a
\* row by adding duplicate_slot to the reason the row had, after "; " when
\* that reason was not empty.
C9_ReviewIffReason ==
    /\ \A i \in DOMAIN cells :
           /\ cells[i].needs_review <=> cells[i].review_reason # <<>>
           /\ JoinedReasonCodes(cells[i].review_reason)
    /\ Returned =>
           \A i \in OutLabels :
               /\ OutCells[i].needs_review <=> OutCells[i].review_reason # <<>>
               /\ (OutCells[i].slot # None
                   /\ Cardinality(RowsWithSlot(OutCells[i].slot[1])) > 1) =>
                      OutCells[i].review_reason[Len(OutCells[i].review_reason)]
                          = "duplicate_slot"

\* a returned sku run with two rows flagged only by the duplicate pass and
\* a row flagged for its identifier
C9_Witness ==
    /\ Returned
    /\ \E i, j \in OutLabels :
           /\ OutCells[i].needs_review
           /\ OutCells[i].review_reason = <<"duplicate_slot">>
           /\ OutCells[i].match_method = "sku"
           /\ OutCells[j].needs_review
           /\ OutCells[j].review_reason = <<"sku_missing_or_invalid">>

\* the call is one match() rejects: an empty table or an unknown mode
RejectedCall ==
    Len(args.df.rows) = 0 \/ args.mode \notin {"auto", "sku", "sequence"}

\* a step of match() is enabled: the state is not one match() is stuck in
CanStep ==
    \/ pc = "start" /\ ResolvedMode \in ValidModes
    \/ pc \in {"sort", "duplicates", "summary"}
    \/ pc \in {"sku_loop", "seq_loop"} /\ pos <= Len(index)

\* C10: match() on an empty table or with a mode outside auto, sku and
\* sequence raises and returns nothing; every other call runs on (it never
\* raises and is never stuck before it returns) and returns the table with
\* every input row annotated, together with the summary.
C10_RaiseOrCompleteTable ==
    /\ RejectedCall => (pc \in {"start", "raised"} /\ result = None)
    /\ pc = "raised" => (RejectedCall /\ error # "" /\ result = None)
    /\ ~RejectedCall => (pc # "raised" /\ error = "" /\ (pc = "done" \/ CanStep))
    /\ Returned <=> pc = "done"
    /\ Returned =>
           /\ {OutIndex[k] : k \in 1..Len(OutIndex)} = 1..Len(args.df.rows)
           /\ Len(OutIndex) = Len(args.df.rows)
           /\ \A i \in 1..Len(args.df.rows) : OutCells[i].match_method # NoMethod
           /\ OutSummary.total_rows = Len(args.df.rows)

\* a call with an unknown mode on a table with rows has raised and returned
\* nothing
C10_Witness ==
    /\ pc = "raised"
    /\ error = "Invalid mode"
    /\ Len(args.df.rows) = MaxRows
    /\ result = None
    /\ cells = <<>>


\* ----------------------------------------------------------------- C11
\* the start slot the caller asked for
RequestedStartSlot ==
    IF surface.kind = "direct" THEN args.start_slot ELSE surface.start_slot

\* match() has gone past its entry checks and is processing the table
ProcessingBegun == pc \notin {"idle", "start", "raised"}

\* C11: a run requested with start_slot < 1 through match() or through the
\* command line is rejected before any row is processed and reported as an
\* error (match() raises, the command exits non-zero), and the sequence
\* strategy never assigns a slot number below 1.
C11_NonPositiveStartSlotRejected ==
    /\ (surface.kind \in {"direct", "cli"} /\ RequestedStartSlot < 1) =>
          /\ ~ProcessingBegun
          /\ (surface.kind = "direct" /\ pc # "start") => pc = "raised"
          /\ (surface.kind = "cli" /\ surface.pc = "finished") =>
                 surface.status \notin {NoStatus, 0}
    /\ \A i \in 1..Len(cells) :
          cells[i].match_method = "sequence" =>
              cells[i].slot # None /\ cells[i].slot[1] >= 1

\* ----------------------------------------------------------------- C12
\* row i of the call's table passes the filter and its identifier does not
\* parse
UnparseableRow(i) ==
    /\ ~HitsExclude(args.df.rows[i])
    /\ ~FailsInclude(args.df.rows[i])
    /\ \/ "sku" \notin ColumnSet(args.df.columns)
       \/ parse_sku_to_slot(args.df.rows[i]["sku"]) = None

\* the rows without the i-th
Without(rows, i) ==
    [k \in 1..(Len(rows) - 1) |-> IF k < i THEN rows[k] ELSE rows[k + 1]]

\* the cells row j (j # i) gets in a sku run on the table without row i
CellIfAbsent(i, j) ==
    SkuRun(Without(args.df.rows, i), exclude_keywords, include_keywords)
        [IF j < i THEN j ELSE j - 1]

\* C12: in sku mode a row that passes the filter and whose identifier does
\* not parse is given manual_review, needs_review, the reason
\* sku_missing_or_invalid and no slot as soon as its turn is over; the run
\* goes on to return (it neither raises nor stops), and in the returned
\* table every other row has the annotations a sku run on the table
\* without that row gives it.
C12_UnparseableRowIsolated ==
    (mode = "sku" /\ InLoopOrAfter("sku_loop")) =>
        /\ error = ""
        /\ CanStep \/ Returned
        /\ \A k \in Processed :
               UnparseableRow(index[k]) =>
                   /\ cells[index[k]].match_method = "manual_review"
                   /\ cells[index[k]].needs_review
                   /\ cells[index[k]].review_reason = <<"sku_missing_or_invalid">>
                   /\ cells[index[k]].slot = None
                   /\ cells[index[k]].matched_item_label = None
        /\ Returned =>
               \A i \in 1..Len(args.df.rows) :
                   UnparseableRow(i) =>
                       \A j \in (1..Len(args.df.rows)) \ {i} :
                           OutCells[j] = CellIfAbsent(i, j)

\* a returned sku run of three rows: one unparseable, two sharing a slot
C12_Witness ==
    /\ Returned
    /\ mode = "sku"
    /\ Len(args.df.rows) = 3
    /\ UnparseableRow(2)
    /\ OutCells[2].match_method = "manual_review"
    /\ OutCells[1].slot = Some(1)
    /\ OutCells[3].slot = Some(1)
    /\ HasReason(OutCells[1], "duplicate_slot")

\* ----------------------------------------------------------------- C13
\* the request's mode is unknown or its start slot is below 1
InvalidRequest ==
    surface.mode \notin {"auto", "sku", "sequence"} \/ surface.start_slot < 1

\* C13: on both HTTP endpoints a request with a mode outside auto, sku and
\* sequence or with start_slot < 1 never reaches match() and is answered
\* with status 400; a ValueError of load_csv or match() is answered with 400;
\* a 500 answers only an error that is neither of these.
C13_HttpErrorsMapped ==
    surface.kind \in HttpKinds =>
        /\ InvalidRequest =>
               /\ pc = "idle"
               /\ surface.pc = "finished" => surface.status = 400
        /\ (surface.pc = "finished" /\ surface.raised = "ValueError") =>
               surface.status = 400
        /\ (surface.pc = "finished" /\ surface.status = 500) =>
               /\ ~InvalidRequest
               /\ surface.raised \notin {"", "ValueError"}

\* ----------------------------------------------------------------- C14
\* the rows of the working table whose needs_review flag is set
FlaggedRows == {i \in 1..Len(cells) : cells[i].needs_review}

\* C14: the needs-review tally is the number of rows whose needs_review
\* flag is set, after every turn of the assignment loop and after the
\* duplicate pass, and summary['needs_review'] is the number of returned
\* rows flagged: a row flagged for an unparseable identifier or for a
\* duplicate slot is counted once.
C14_NeedsReviewCountsFlaggedRows ==
    /\ ProcessingBegun => needs_review_count = Cardinality(FlaggedRows)
    /\ Returned =>
           OutSummary.needs_review =
               Cardinality({i \in OutLabels : OutCells[i].needs_review})

\* a returned table with an unparseable row and a pair of duplicates, all
\* three counted
C14_Witness ==
    /\ Returned
    /\ OutSummary.needs_review = 3
    /\ \E i \in OutLabels : HasReason(OutCells[i], "sku_missing_or_invalid")
    /\ \E i \in OutLabels : HasReason(OutCells[i], "duplicate_slot")

\* ----------------------------------------------------------------- C15
\* the row has no product-name column, or its product name is null
MissingText(row) ==
    \/ "product name" \notin DOMAIN row
    \/ row["product name"].kind \in {"nan", "none"}

\* C15: for a row whose text field is missing (no column, or a null value)
\* should_exclude_row is false for every list of non-empty keywords, and
\* should_include_row is true exactly when the list is empty.
C15_MissingTextIsEmpty ==
    (pc = "filtered" /\ MissingText(args.row)) =>
        /\ (\A k \in 1..Len(args.keywords) : args.keywords[k] # <<>>) =>
               ~result[1].exclude
        /\ result[1].include <=> (args.keywords = <<>>)

\* ----------------------------------------------------------------- C16
\* C16: in every mode the table match() returns has the input table's
\* columns in their order, then the five annotation columns and no other
\* column, and every input value is as it was.
C16_OnlyAnnotationColumnsAdded ==
    Returned =>
        /\ result[1].df.columns = args.df.columns \o AnnotationColumns
        /\ result[1].df.data = args.df.rows

====
